---- MODULE Spec2Model ----
(***************************************************************************)
(* Model of rdf_converter_fixed.py: the CSV -> RDF conversion of the       *)
(* French historic monuments export.                                       *)
(*                                                                         *)
(* A Python str is a sequence of one-character strings.  Python's None is  *)
(* the value None below.  A URI is a record [ns, local]: the namespace it  *)
(* was minted in and the local part appended to it.                        *)
(***************************************************************************)
EXTENDS Integers, Sequences, FiniteSets, TLC

VARIABLES
    \* ---- convert_csv_to_rdf ----
    file,            \* the data rows the csv.DictReader yields, in file order
    limit,           \* the limit argument: << >> for None, <<n>> for the int n
    idx,             \* enumerate's index of the last row read (0 before the first)
    graph,           \* g: the set of triples
    success_count,
    errors_count,
    pc,              \* "loop" | "serialize" | "done"
    output,          \* the files g.serialize wrote: << >>, then <<the graph written>>
    serialize_calls, \* number of g.serialize calls
    handled,         \* history: per row that entered the try block, its URI and outcome
    \* ---- safe_uri called on its own ----
    identifier,      \* the argument
    token,           \* the local part safe_uri produced for identifier
    retoken,         \* the local part safe_uri produced for token
    upc              \* "start" | "sanitized" | "resanitized"

runVars == <<file, limit, idx, graph, success_count, errors_count, pc, output,
             serialize_calls, handled>>
uriVars == <<identifier, token, retoken, upc>>
vars == <<file, limit, idx, graph, success_count, errors_count, pc, output,
          serialize_calls, handled, identifier, token, retoken, upc>>

\* ---------------------------------------------------------------- bounds
MaxLen == 3
MaxRows == 2
MaxLimit == 2

\* ---------------------------------------------------------------- strings
None == <<"None">>

AsciiLetters ==
    {"a", "b", "c", "d", "e", "f", "g", "h", "i", "j", "k", "l", "m",
     "n", "o", "p", "q", "r", "s", "t", "u", "v", "w", "x", "y", "z",
     "A", "B", "C", "D", "E", "F", "G", "H", "I", "J", "K", "L", "M",
     "N", "O", "P", "Q", "R", "S", "T", "U", "V", "W", "X", "Y", "Z"}
Digits == {"0", "1", "2", "3", "4", "5", "6", "7", "8", "9"}
\* letters outside ASCII (str.isalnum() is true of them)
UnicodeLetters == {"é"}
\* what str.strip() removes
Whitespace == {" "}

\* re's \w on a str pattern: Unicode alphanumerics and the underscore
IsWordChar(c) == c \in AsciiLetters \cup Digits \cup UnicodeLetters \cup {"_"}

\* the class with the period left out, [^\w\-_]
UnsafeNoPeriod(c) == ~(IsWordChar(c) \/ c \in {"-", "_"})

\* the class [^\w\-_.]: what the first re.sub replaces
Unsafe(c) == ~(IsWordChar(c) \/ c \in {"-", "_", "."})

\* With(x, F) is F(x) with x evaluated once, before F is applied: the
\* assignment of a local variable
With(x, F(_)) == CHOOSE r \in {F(v) : v \in {x}} : TRUE

SetMin(S) == CHOOSE i \in S : \A j \in S : i <= j
SetMax(S) == CHOOSE i \in S : \A j \in S : i >= j

\* str.strip() (cs = Whitespace) and str.strip(chars): what lies between the
\* first and the last character that is not in cs
Strip(s, cs) ==
    With({i \in 1..Len(s) : s[i] \notin cs}, LAMBDA keep :
        IF keep = {} THEN << >> ELSE SubSeq(s, SetMin(keep), SetMax(keep)))

\* re.sub(r'[^\w\-_.]', '_', s)
ReplaceUnsafe(s) == [i \in 1..Len(s) |-> IF Unsafe(s[i]) THEN "_" ELSE s[i]]

\* re.sub(r'_+', '_', s)
RECURSIVE CollapseUnderscores(_)
CollapseUnderscores(s) ==
    IF Len(s) < 2 THEN s
    ELSE IF s[1] = "_" /\ s[2] = "_" THEN CollapseUnderscores(Tail(s))
    ELSE <<s[1]>> \o CollapseUnderscores(Tail(s))

Unknown == <<"u", "n", "k", "n", "o", "w", "n">>

\* safe_uri with the underscores trimmed before the replacement instead of after
SafeTokenTrimFirst(s) ==
    With(Strip(Strip(s, Whitespace), {"_"}), LAMBDA a :
    With(ReplaceUnsafe(a), LAMBDA b :
    With(CollapseUnderscores(b), LAMBDA c :
        IF c = << >> THEN Unknown ELSE c)))

\* safe_uri, lines 17-23: the cleaned identifier
SafeToken(s) ==
    With(Strip(s, Whitespace), LAMBDA a :
    With(ReplaceUnsafe(a), LAMBDA b :
    With(CollapseUnderscores(b), LAMBDA c :
    With(Strip(c, {"_"}), LAMBDA d :
        IF d = << >> THEN Unknown ELSE d))))

\* safe_uri, lines 25-28: the token appended to the namespace
safe_uri(base_ns, id) == [ns |-> base_ns, local |-> SafeToken(id)]

\* ---------------------------------------------------------------- numbers
DigitChars == <<"0", "1", "2", "3", "4", "5", "6", "7", "8", "9">>
DigitVal(c) == (CHOOSE d \in 1..Len(DigitChars) : DigitChars[d] = c) - 1

\* str(n) for a natural number n
RECURSIVE DecStr(_)
DecStr(n) ==
    IF n < Len(DigitChars) THEN <<DigitChars[n + 1]>>
    ELSE DecStr(n \div Len(DigitChars)) \o <<DigitChars[(n % Len(DigitChars)) + 1]>>

IntStr(n) == IF n < 0 THEN <<"-">> \o DecStr(-n) ELSE DecStr(n)

\* str.split(sep): the parts between the occurrences of sep
Split(s, sep) ==
    With({i \in 1..Len(s) : s[i] = sep}, LAMBDA seps :
        LET n == Cardinality(seps)
            Pos(k) == IF k = 0 THEN 0
                      ELSE IF k = n + 1 THEN Len(s) + 1
                      ELSE CHOOSE i \in seps : Cardinality({j \in seps : j <= i}) = k
        IN  [k \in 1..(n + 1) |-> SubSeq(s, Pos(k - 1) + 1, Pos(k) - 1)])

\* digits, with single underscores allowed between two digits
DigitRun(s) ==
    /\ s # << >>
    /\ s[1] \in Digits /\ s[Len(s)] \in Digits
    /\ \A i \in 1..Len(s) : s[i] \in Digits \cup {"_"}
    /\ \A i \in 1..(Len(s) - 1) : ~(s[i] = "_" /\ s[i + 1] = "_")

\* the number the first n characters of a digit run denote
RECURSIVE DigitsValueUpTo(_, _)
DigitsValueUpTo(s, n) ==
    IF n = 0 THEN 0
    ELSE IF s[n] = "_" THEN DigitsValueUpTo(s, n - 1)
    ELSE Len(DigitChars) * DigitsValueUpTo(s, n - 1) + DigitVal(s[n])

DigitsValue(s) == DigitsValueUpTo(s, Len(s))

NumDigits(s) == Cardinality({i \in 1..Len(s) : s[i] \in Digits})

Unsigned(t) == IF t # << >> /\ t[1] \in {"+", "-"} THEN Tail(t) ELSE t
Negative(t) == t # << >> /\ t[1] = "-"

NonFinite == {<<"n", "a", "n">>, <<"i", "n", "f">>,
              <<"i", "n", "f", "i", "n", "i", "t", "y">>}

\* [digits][.[digits]] with at least one digit
DecimalBody(m) ==
    With(Split(m, "."), LAMBDA ps :
        \/ Len(ps) = 1 /\ DigitRun(ps[1])
        \/ /\ Len(ps) = 2
           /\ ps[1] = << >> \/ DigitRun(ps[1])
           /\ ps[2] = << >> \/ DigitRun(ps[2])
           /\ ~(ps[1] = << >> /\ ps[2] = << >>))

\* float(t) does not raise ValueError: an optional sign, then nan, inf,
\* infinity, or a decimal with an optional exponent
IsFloat(t0) ==
    With(Unsigned(Strip(t0, Whitespace)), LAMBDA u :
    With(Split(u, "e"), LAMBDA es :
        \/ u \in NonFinite
        \/ Len(es) = 1 /\ DecimalBody(es[1])
        \/ Len(es) = 2 /\ DecimalBody(es[1]) /\ DigitRun(Unsigned(es[2]))))

RECURSIVE Normalise(_, _)
Normalise(mant, exp) ==
    IF mant = 0 THEN <<0, 0>>
    ELSE IF mant % Len(DigitChars) = 0 THEN Normalise(mant \div Len(DigitChars), exp + 1)
    ELSE <<mant, exp>>

\* the value of a decimal with an optional exponent: <<mantissa, exponent>>,
\* the mantissa without trailing zeros
DecimalValue(es) ==
    With(Split(es[1], "."), LAMBDA ps :
    With(IF Len(ps) = 2 THEN ps[2] ELSE << >>, LAMBDA frac :
    With(IF Len(es) = 2
         THEN (IF Negative(es[2]) THEN -1 ELSE 1) * DigitsValue(Unsigned(es[2]))
         ELSE 0, LAMBDA e10 :
        Normalise(DigitsValue(ps[1] \o frac), e10 - NumDigits(frac)))))

\* float(t) for a t that IsFloat, as the canonical text of its value: sign,
\* mantissa, "e", exponent, so that equal numbers have equal texts
FloatOf(t0) ==
    With(Strip(t0, Whitespace), LAMBDA t :
    With(IF Negative(t) THEN <<"-">> ELSE << >>, LAMBDA sign :
    With(Unsigned(t), LAMBDA u :
        IF u \in NonFinite THEN sign \o SubSeq(u, 1, 3)
        ELSE With(DecimalValue(Split(u, "e")), LAMBDA n :
                 sign \o DecStr(n[1]) \o <<"e">> \o IntStr(n[2])))))

\* ---------------------------------------------------------------- helpers
\* parse_coordinates: <<lat, lon>> or <<None, None>>
parse_coordinates(coord_string) ==
    IF coord_string = None \/ coord_string = << >> THEN <<None, None>>
    ELSE With(Split(coord_string, ","), LAMBDA parts :
             IF /\ Len(parts) = 2
                /\ IsFloat(Strip(parts[1], Whitespace))
                /\ IsFloat(Strip(parts[2], Whitespace))
             THEN <<FloatOf(Strip(parts[1], Whitespace)),
                    FloatOf(Strip(parts[2], Whitespace))>>
             ELSE <<None, None>>)

\* clean_value
clean_value(value) ==
    IF value = None \/ value = << >> THEN None
    ELSE With(Strip(value, Whitespace), LAMBDA v :
             IF v = << >> THEN None ELSE v)

\* ---------------------------------------------------------------- namespaces
BASE == "http://monuments-historiques.fr/resource/"
SCHEMA == "http://schema.org/"
WGS84 == "http://www.w3.org/2003/01/geo/wgs84_pos#"
DCTERMS == "http://purl.org/dc/terms/"
OSM == "https://www.openstreetmap.org/"
RDF == "http://www.w3.org/1999/02/22-rdf-syntax-ns#"
XSD == "http://www.w3.org/2001/XMLSchema#"

\* a predicate ns.name, e.g. SCHEMA.category
Pred(ns, name) == <<ns, name>>
\* URIRef(text), Literal(text) and Literal(text, datatype=dt): the objects of triples
UriObject(ns, text) == [kind |-> "uri", ns |-> ns, val |-> text]
Literal(text, dt) == [kind |-> "literal", ns |-> dt, val |-> text]
Triple(s, p, o) == [s |-> s, p |-> p, o |-> o]

Place == <<"P", "l", "a", "c", "e">>
OsmPrefix == <<"o", "s", "m", "_">>
MonumentPrefix == <<"m", "o", "n", "u", "m", "e", "n", "t", "_">>

\* ---------------------------------------------------------------- mapping
\* one "value = clean_value(row.get(col)); if value: g.add(...)" block:
\* the triples it adds, in order
Rule(value, triples) == IF clean_value(value) # None THEN triples ELSE << >>

\* lines 102-107
GeoRule(row, monument_uri) ==
    With(clean_value(row.OSMPoint), LAMBDA osm_point :
    With(parse_coordinates(osm_point), LAMBDA ll :
        IF osm_point # None /\ ll[1] # None /\ ll[2] # None
        THEN <<Triple(monument_uri, Pred(WGS84, "lat"), Literal(ll[1], "xsd:decimal")),
               Triple(monument_uri, Pred(WGS84, "long"), Literal(ll[2], "xsd:decimal"))>>
        ELSE << >>))

\* lines 75-79
TypeRule(row, monument_uri) ==
    Rule(row.Type, <<Triple(monument_uri, Pred(SCHEMA, "category"),
        UriObject(SCHEMA, safe_uri(SCHEMA, clean_value(row.Type)).local))>>)

\* lines 81-99
TextRules(row, monument_uri) ==
    Rule(row.Nom, <<Triple(monument_uri, Pred(SCHEMA, "name"),
        Literal(clean_value(row.Nom), ""))>>)
    \o Rule(row.Commune, <<Triple(monument_uri, Pred(SCHEMA, "addressLocality"),
        Literal(clean_value(row.Commune), ""))>>)
    \o Rule(row.Departement, <<Triple(monument_uri, Pred(SCHEMA, "department"),
        Literal(clean_value(row.Departement), ""))>>)
    \o Rule(row.Region, <<Triple(monument_uri, Pred(SCHEMA, "addressRegion"),
        Literal(clean_value(row.Region), ""))>>)

\* lines 109-122
OsmRules(row, monument_uri) ==
    Rule(row.OSMId, <<Triple(monument_uri, Pred(OSM, "osmId"),
        Literal(clean_value(row.OSMId), ""))>>)
    \o Rule(row.OSMURL, <<Triple(monument_uri, Pred(SCHEMA, "url"),
        UriObject("", clean_value(row.OSMURL)))>>)
    \o Rule(row.OSMDate, <<Triple(monument_uri, Pred(DCTERMS, "modified"),
        Literal(clean_value(row.OSMDate), "xsd:date"))>>)

\* map_csv_to_rdf without line 107, the wgs84:long triple
MapNoLong(row, monument_uri) ==
    TypeRule(row, monument_uri)
    \o TextRules(row, monument_uri)
    \o With(GeoRule(row, monument_uri), LAMBDA geo :
           IF geo = << >> THEN geo ELSE <<geo[1]>>)
    \o OsmRules(row, monument_uri)

\* map_csv_to_rdf where an empty Nom returns from the function
MapStopsAtEmptyNom(row, monument_uri) ==
    IF clean_value(row.Nom) = None
    THEN TypeRule(row, monument_uri)
    ELSE TypeRule(row, monument_uri)
         \o TextRules(row, monument_uri)
         \o GeoRule(row, monument_uri)
         \o OsmRules(row, monument_uri)

\* map_csv_to_rdf: the triples its g.add calls add, in call order
map_csv_to_rdf(row, monument_uri) ==
    TypeRule(row, monument_uri)
    \o TextRules(row, monument_uri)
    \o GeoRule(row, monument_uri)
    \o OsmRules(row, monument_uri)

\* lines 165-171: the monument's URI for the row read with index i
MonumentUri(row, i) ==
    With(clean_value(row.OSMId), LAMBDA osm_id :
    With(IF osm_id # None THEN OsmPrefix \o osm_id ELSE MonumentPrefix \o DecStr(i),
         LAMBDA monument_id :
        safe_uri(BASE, monument_id)))

\* lines 171-177: every g.add of the try block, in order
RowAdds(row, i) ==
    With(MonumentUri(row, i), LAMBDA monument_uri :
        <<Triple(monument_uri, Pred(RDF, "type"), UriObject(SCHEMA, Place))>>
        \o map_csv_to_rdf(row, monument_uri))

Range(seq) == {seq[i] : i \in 1..Len(seq)}

\* ---------------------------------------------------------------- inputs
BlankRow == [Type |-> None, Nom |-> None, Commune |-> None, Departement |-> None,
             Region |-> None, OSMPoint |-> None, OSMId |-> None, OSMURL |-> None,
             OSMDate |-> None]

\* the rows of the whole-run specification: OSM Ids that are absent, equal, or
\* different but equal once sanitized; a point that parses or is absent
RunRows ==
    {[BlankRow EXCEPT !.Nom = <<"a">>, !.OSMPoint = <<"1", ",", "2">>],
     [BlankRow EXCEPT !.Nom = <<"a">>, !.OSMId = <<"1">>],
     [BlankRow EXCEPT !.Nom = <<"a">>, !.OSMId = <<"1">>, !.OSMPoint = <<"1", ",", "2">>],
     [BlankRow EXCEPT !.Nom = <<"a">>, !.OSMId = <<"1", "!">>]}

\* the rows of the single-row specification: every column absent, empty, blank
\* or filled, independently of the others
AllRows ==
    [Type : {None, <<" ">>, <<"a", " ", "b">>},
     Nom : {None, <<"a">>},
     Commune : {<< >>, <<"a">>},
     Departement : {<<" ">>, <<"a">>},
     Region : {None, <<"é">>},
     OSMPoint : {None, <<"1">>, <<"1", ",", " ", "a">>,
                 <<" ", "1", ".", "5", "0", " ", ",", "-", "2", " ">>},
     OSMId : {None, <<" ">>, <<"1", "2">>, <<"1", " ", "2">>},
     OSMURL : {<< >>, <<"u">>},
     OSMDate : {None, <<"1">>}]

SeqsUpTo(S, n) == UNION {[1..k -> S] : k \in 0..n}

\* the characters safe_uri is tried on: a letter, a digit, the three safe
\* punctuation marks, whitespace, unsafe punctuation, a non-ASCII letter
UriChars == {"a", "1", "_", "-", ".", " ", "!", "é"}

\* ---------------------------------------------------------------- the run
RunIdle ==
    /\ file = << >> /\ limit = << >> /\ idx = 0 /\ graph = {}
    /\ success_count = 0 /\ errors_count = 0 /\ pc = "idle"
    /\ output = << >> /\ serialize_calls = 0 /\ handled = << >>

UriIdle == identifier = << >> /\ token = None /\ retoken = None /\ upc = "idle"

\* lines 136-153: the state when the loop starts
RunStart ==
    /\ idx = 0 /\ graph = {}
    /\ success_count = 0 /\ errors_count = 0 /\ pc = "loop"
    /\ output = << >> /\ serialize_calls = 0 /\ handled = << >>

Init ==
    /\ file \in SeqsUpTo(RunRows, MaxRows)
    /\ limit \in {<< >>} \cup {<<n>> : n \in 0..MaxLimit}
    /\ RunStart
    /\ UriIdle

InitRow ==
    /\ \E r \in AllRows :
          \/ file = <<r>> /\ limit = << >>
          \/ file = <<r, BlankRow>> /\ limit = <<1>>
    /\ RunStart
    /\ UriIdle

\* line 157: `limit and idx > limit` for the row read with index i
LimitReached(i) == limit # << >> /\ limit[1] # 0 /\ i > limit[1]

\* lines 155-179: one iteration whose try block completes
MapRowOk ==
    /\ pc = "loop" /\ idx < Len(file) /\ ~LimitReached(idx + 1)
    /\ idx' = idx + 1
    /\ graph' = graph \cup Range(RowAdds(file[idx + 1], idx + 1))
    /\ success_count' = success_count + 1
    /\ handled' = Append(handled,
                     [uri |-> MonumentUri(file[idx + 1], idx + 1), ok |-> TRUE])
    /\ UNCHANGED <<file, limit, errors_count, pc, output, serialize_calls>>
    /\ UNCHANGED uriVars

\* the iteration without the try/except: the exception leaves the function
MapRowErrorUncaught ==
    /\ pc = "loop" /\ idx < Len(file) /\ ~LimitReached(idx + 1)
    /\ idx' = idx + 1
    /\ \E k \in 0..Len(RowAdds(file[idx + 1], idx + 1)) :
          graph' = graph \cup Range(SubSeq(RowAdds(file[idx + 1], idx + 1), 1, k))
    /\ pc' = "raised"
    /\ handled' = Append(handled,
                     [uri |-> MonumentUri(file[idx + 1], idx + 1), ok |-> FALSE])
    /\ UNCHANGED <<file, limit, success_count, errors_count, output, serialize_calls>>
    /\ UNCHANGED uriVars

\* lines 155-184: one iteration in which a call of the try block raises an
\* Exception after k of the row's g.add calls have returned (k = 0: while the
\* URI is made or the first triple added; k = all: in the last clean_value).
\* The k triples stay in g; the except clause counts the error.
MapRowError ==
    /\ pc = "loop" /\ idx < Len(file) /\ ~LimitReached(idx + 1)
    /\ idx' = idx + 1
    /\ \E k \in 0..Len(RowAdds(file[idx + 1], idx + 1)) :
          graph' = graph \cup Range(SubSeq(RowAdds(file[idx + 1], idx + 1), 1, k))
    /\ errors_count' = errors_count + 1
    /\ handled' = Append(handled,
                     [uri |-> MonumentUri(file[idx + 1], idx + 1), ok |-> FALSE])
    /\ UNCHANGED <<file, limit, success_count, pc, output, serialize_calls>>
    /\ UNCHANGED uriVars

\* lines 155-158: a row is read and the limit check breaks out of the loop
LimitBreak ==
    /\ pc = "loop" /\ idx < Len(file) /\ LimitReached(idx + 1)
    /\ idx' = idx + 1
    /\ pc' = "serialize"
    /\ UNCHANGED <<file, limit, graph, success_count, errors_count, output,
                   serialize_calls, handled>>
    /\ UNCHANGED uriVars

\* line 155: the reader is exhausted
EndOfInput ==
    /\ pc = "loop" /\ idx = Len(file)
    /\ pc' = "serialize"
    /\ UNCHANGED <<file, limit, idx, graph, success_count, errors_count, output,
                   serialize_calls, handled>>
    /\ UNCHANGED uriVars

\* lines 186-197
Serialize ==
    /\ pc = "serialize"
    /\ output' = Append(output, graph)
    /\ serialize_calls' = serialize_calls + 1
    /\ pc' = "done"
    /\ UNCHANGED <<file, limit, idx, graph, success_count, errors_count, handled>>
    /\ UNCHANGED uriVars

Next == MapRowOk \/ MapRowError \/ LimitBreak \/ EndOfInput \/ Serialize

Spec == Init /\ [][Next]_vars
\* the run is one sequential thread: it takes its next step whenever it has one
FairSpec == Init /\ [][Next]_vars /\ WF_vars(Next)
SpecRow == InitRow /\ [][Next]_vars

\* ---------------------------------------------------------------- safe_uri alone
InitUri ==
    /\ identifier \in SeqsUpTo(UriChars, MaxLen)
    /\ token = None /\ retoken = None /\ upc = "start"
    /\ RunIdle

\* safe_uri(BASE, identifier)
Sanitize ==
    /\ upc = "start"
    /\ token' = safe_uri(BASE, identifier).local
    /\ upc' = "sanitized"
    /\ UNCHANGED <<identifier, retoken>>
    /\ UNCHANGED runVars

\* safe_uri(BASE, token)
Resanitize ==
    /\ upc = "sanitized"
    /\ retoken' = safe_uri(BASE, token).local
    /\ upc' = "resanitized"
    /\ UNCHANGED <<identifier, token>>
    /\ UNCHANGED runVars

NextUri == Sanitize \/ Resanitize

SpecUri == InitUri /\ [][NextUri]_vars

\* ================================================================ claims
Min(a, b) == IF a < b THEN a ELSE b

\* "cleaned value non-empty": the cell holds a string with a non-blank character
Present(v) == v # None /\ \E i \in 1..Len(v) : v[i] \notin Whitespace

\* "OSM Point splits into exactly two comma-separated parts that both parse as numbers"
WellFormedPoint(v) ==
    /\ Present(v)
    /\ Len(Split(v, ",")) = 2
    /\ IsFloat(Split(v, ",")[1]) /\ IsFloat(Split(v, ",")[2])

LatPred == Pred(WGS84, "lat")
LongPred == Pred(WGS84, "long")

\* the predicate of each column other than OSM Point
ColumnPred ==
    [Type |-> Pred(SCHEMA, "category"), Nom |-> Pred(SCHEMA, "name"),
     Commune |-> Pred(SCHEMA, "addressLocality"),
     Departement |-> Pred(SCHEMA, "department"),
     Region |-> Pred(SCHEMA, "addressRegion"), OSMId |-> Pred(OSM, "osmId"),
     OSMURL |-> Pred(SCHEMA, "url"), OSMDate |-> Pred(DCTERMS, "modified")]

ExpectedPreds(row) ==
    {Pred(RDF, "type")}
    \cup {ColumnPred[c] : c \in {d \in DOMAIN ColumnPred : Present(row[d])}}
    \cup (IF WellFormedPoint(row.OSMPoint) THEN {LatPred, LongPred} ELSE {})

FullRow(row) ==
    /\ \A c \in DOMAIN ColumnPred : Present(row[c])
    /\ WellFormedPoint(row.OSMPoint)

AllEmpty(row) == \A c \in DOMAIN row : ~Present(row[c])

\* the first row was mapped without an exception and no other row has been
\* handled: the graph holds what that row contributed
FirstRowMapped == Len(handled) = 1 /\ handled[1].ok

\* ---- C1 ----
\* C1 (as claimed): a row whose handling raises leaves the graph as it was before
\* the row, adds exactly 1 to errors_count, leaves success_count alone, and the
\* loop goes on.
C1_FailedRowSkipped ==
    [][errors_count' # errors_count =>
          /\ graph' = graph
          /\ errors_count' = errors_count + 1
          /\ success_count' = success_count
          /\ pc' = "loop"]_vars

\* ---- C2 ----
\* C2 (as claimed): with an integer limit N no more than N rows are ever handled,
\* and a finished run has handled exactly min(N, R) rows (all R rows with no limit).
C2_RowLimit ==
    /\ limit # << >> => Len(handled) <= limit[1]
    /\ pc = "done" =>
          Len(handled) = IF limit = << >> THEN Len(file)
                         ELSE Min(limit[1], Len(file))

\* ---- C3 ----
\* C3 (as claimed): a row with all nine columns filled and a well-formed point
\* contributes exactly 10 triples, all with one subject, whose URI ends in
\* osm_<OSM Id>.
C3_TenTriples ==
    (FirstRowMapped /\ FullRow(file[1])) =>
        /\ Cardinality(graph) = 10
        /\ \A t \in graph : t.s = handled[1].uri
        /\ handled[1].uri.local = OsmPrefix \o clean_value(file[1].OSMId)

\* C3 (amended): such a row contributes exactly 11 triples, all with one subject,
\* whose URI is the base namespace followed by the sanitized form of
\* osm_<OSM Id>, which is osm_<OSM Id> itself when the OSM Id is made of digits.
C3_ElevenTriples ==
    (FirstRowMapped /\ FullRow(file[1])) =>
        /\ Cardinality(graph) = 11
        /\ \A t \in graph : t.s = handled[1].uri
        /\ handled[1].uri.ns = BASE
        /\ handled[1].uri.local = SafeToken(OsmPrefix \o clean_value(file[1].OSMId))
        /\ (\A i \in 1..Len(file[1].OSMId) : file[1].OSMId[i] \in Digits) =>
              handled[1].uri.local = OsmPrefix \o file[1].OSMId

C3_Witness ==
    /\ FirstRowMapped /\ FullRow(file[1])
    /\ file[1].OSMId = <<"1", "2">>
    /\ Cardinality(graph) = 11

\* ---- C4 ----
ClaimSafeChars == (AsciiLetters \cup Digits) \cup {"-", "_", "."}

\* identifier is a non-empty string of safe characters, optionally surrounded by
\* whitespace
SafeOnly(s) ==
    /\ Strip(s, Whitespace) # << >>
    /\ \A i \in 1..Len(Strip(s, Whitespace)) : Strip(s, Whitespace)[i] \in ClaimSafeChars

\* C4 (as claimed): for a non-empty string of safe characters, optionally
\* surrounded by whitespace, the token is the string with the whitespace trimmed.
C4_SafeUnchanged ==
    (upc # "start" /\ SafeOnly(identifier)) => token = Strip(identifier, Whitespace)

\* no underscore starts or ends s and no two underscores are adjacent
UnderscoresInside(s) ==
    /\ s[1] # "_" /\ s[Len(s)] # "_"
    /\ \A i \in 1..(Len(s) - 1) : ~(s[i] = "_" /\ s[i + 1] = "_")

\* C4 (amended): for such a string in which no underscore is first, last or next
\* to another underscore, the token is the string with the whitespace trimmed.
C4_SafeUnchangedAmended ==
    (/\ upc # "start"
     /\ SafeOnly(identifier)
     /\ UnderscoresInside(Strip(identifier, Whitespace)))
        => token = Strip(identifier, Whitespace)

C4_Witness ==
    /\ upc = "sanitized"
    /\ SafeOnly(identifier)
    /\ UnderscoresInside(Strip(identifier, Whitespace))
    /\ identifier # Strip(identifier, Whitespace)
    /\ \E i \in 1..Len(identifier) : identifier[i] \in {"_", ".", "-"}
    /\ token = Strip(identifier, Whitespace)

\* ---- C5 ----
\* C5 (as claimed): for a string made only of characters other than ASCII letters,
\* digits, hyphen, underscore and period, the token is 'unknown'.
C5_UnsafeOnlyUnknown ==
    (upc # "start" /\ \A i \in 1..Len(identifier) : identifier[i] \notin ClaimSafeChars)
        => token = Unknown

\* ---- C6 ----
\* C6: sanitizing the token safe_uri produced yields the same token.
C6_Idempotent == upc = "resanitized" => retoken = token

C6_Witness ==
    /\ upc = "resanitized"
    /\ token # identifier
    /\ token # Unknown
    /\ \E i \in 1..Len(token) : token[i] = "_"
    /\ retoken = token

\* ---- C7 ----
\* C7 (as claimed): whenever the row handled last was mapped completely, each
\* subject of the graph has a wgs84:lat triple iff it has a wgs84:long triple,
\* and the graph holds geo triples only if some handled row had a well-formed
\* OSM Point.
C7_GeoPaired ==
    (Len(handled) >= 1 /\ handled[Len(handled)].ok) =>
        /\ \A t \in graph :
              /\ t.p = LatPred => \E u \in graph : u.s = t.s /\ u.p = LongPred
              /\ t.p = LongPred => \E u \in graph : u.s = t.s /\ u.p = LatPred
        /\ (\E t \in graph : t.p \in {LatPred, LongPred}) =>
              \E i \in 1..Len(handled) : WellFormedPoint(file[i].OSMPoint)

\* ---- C8 ----
\* C8 (as claimed): two handled rows have the same subject URI only if they have
\* the same non-empty cleaned OSM Id.
C8_UniqueUri ==
    \A i, j \in 1..Len(handled) :
        (i # j /\ handled[i].uri = handled[j].uri) =>
            /\ clean_value(file[i].OSMId) # None
            /\ clean_value(file[i].OSMId) = clean_value(file[j].OSMId)

\* ---- C9 ----
\* C9: a successfully mapped row contributes the rdf:type triple plus, for each
\* column, that column's triple(s) iff its cleaned value is non-empty (OSM Point:
\* and well-formed), one triple per predicate, all about the row's URI; a row
\* with every column empty contributes one triple; success_count is incremented.
C9_IndependentRules ==
    FirstRowMapped =>
        /\ \A t \in graph : t.s = handled[1].uri
        /\ {t.p : t \in graph} = ExpectedPreds(file[1])
        /\ Cardinality(graph) = Cardinality(ExpectedPreds(file[1]))
        /\ AllEmpty(file[1]) => Cardinality(graph) = 1
        /\ success_count = 1 /\ errors_count = 0

\* a mapped row with an unparsable point and an empty column between filled ones
C9_Witness ==
    /\ FirstRowMapped
    /\ file[1].OSMPoint = <<"1">>
    /\ Present(file[1].Type) /\ ~Present(file[1].Nom) /\ Present(file[1].Commune)
    /\ ~Present(file[1].OSMId) /\ Present(file[1].OSMDate)
    /\ Cardinality(graph) = 4

\* ---- C10 ----
\* rows the limit argument admits, as the claim counts them
WithinLimit == IF limit = << >> THEN Len(file) ELSE Min(limit[1], Len(file))

C10_Safety ==
    /\ pc # "done" => serialize_calls = 0 /\ output = << >>
    /\ pc = "done" => serialize_calls = 1 /\ output = <<graph>>
    /\ pc \in {"serialize", "done"} =>
          /\ Len(handled) >= WithinLimit
          /\ success_count + errors_count = Len(handled)

====
